---- MODULE Spec2Model ----
(***************************************************************************)
(* TalentScout hiring assistant: the provider client (LLMWrapper), the     *)
(* conversation handler (Chatbot), the prompt builder, the response parser *)
(* and the Streamlit session that saves anonymized records.                *)
(*                                                                         *)
(* Text is modelled as TLA+ strings, character by character: the Python    *)
(* string methods the code uses (strip, lower, split, join, splitlines,    *)
(* isdigit, the `in` substring test) are operators computed over the       *)
(* characters, as Python computes them.                                    *)
(***************************************************************************)
EXTENDS Integers, Sequences, FiniteSets, TLC

VARIABLES
    env,                      \* os.environ: the variables LLMWrapper reads
    openai_available,         \* chatbot_logic.OPENAI_AVAILABLE (import outcome)
    llm,                      \* the LLMWrapper instance, or NotConstructed
    last_generated_questions, \* Chatbot.last_generated_questions
    call,                     \* the most recent call made and what it returned
    messages,                 \* st.session_state.messages: (role, text) pairs
    candidate,                \* st.session_state.candidate
    azure_sdk_available,      \* utils_storage.AZURE_SDK_AVAILABLE (import outcome)
    files,                    \* ./data/candidates: file name -> record written
    blobs,                    \* the Azure container: blob name -> record uploaded
    now,                      \* the UTC clock: the second, and the reading within it
    sink,                     \* the records handed to the persistence sink
    origin,                   \* history: which Send, under which profile, produced
                              \* the stored question set
    parseIn,                  \* the text given to Chatbot._parse_questions
    parseOut                  \* what it returned

vars == <<env, openai_available, llm, last_generated_questions, call, messages,
          candidate, azure_sdk_available, files, blobs, now, sink, origin, parseIn,
          parseOut>>

-----------------------------------------------------------------------------
(* Python string methods *)

Char(s, i) == SubSeq(s, i, i)

WHITESPACE == {" ", "\n", "\t"}

DIGITS == {"0", "1", "2", "3", "4", "5", "6", "7", "8", "9"}

UPPER == <<"A", "B", "C", "D", "E", "F", "G", "H", "I", "J", "K", "L", "M",
           "N", "O", "P", "Q", "R", "S", "T", "U", "V", "W", "X", "Y", "Z">>

LOWER == <<"a", "b", "c", "d", "e", "f", "g", "h", "i", "j", "k", "l", "m",
           "n", "o", "p", "q", "r", "s", "t", "u", "v", "w", "x", "y", "z">>

LowerChar(c) ==
    IF \E k \in 1..26 : UPPER[k] = c
    THEN LOWER[CHOOSE k \in 1..26 : UPPER[k] = c]
    ELSE c

\* str.lower()
RECURSIVE lower(_)
lower(s) ==
    IF Len(s) = 0 THEN ""
    ELSE IF Len(s) = 1 THEN LowerChar(s)
    ELSE LET h == Len(s) \div 2
         IN  lower(SubSeq(s, 1, h)) \o lower(SubSeq(s, h + 1, Len(s)))

\* the index of the first occurrence of t in s, 0 when there is none (str.find + 1)
Find(s, t) ==
    LET hits == {i \in 1..(Len(s) - Len(t) + 1) : SubSeq(s, i, i + Len(t) - 1) = t}
    IN  IF hits = {} THEN 0 ELSE CHOOSE i \in hits : \A j \in hits : i <= j

\* t in s
Contains(s, t) == Find(s, t) # 0

\* s.startswith(t)
startswith(s, t) == Len(s) >= Len(t) /\ SubSeq(s, 1, Len(t)) = t

\* s.lstrip(chars), chars a set of characters
lstrip_chars(s, cs) ==
    LET k == CHOOSE k \in 0..Len(s) :
                 /\ \A i \in 1..k : Char(s, i) \in cs
                 /\ (k = Len(s) \/ Char(s, k + 1) \notin cs)
    IN  SubSeq(s, k + 1, Len(s))

\* s.rstrip(chars)
rstrip_chars(s, cs) ==
    LET k == CHOOSE k \in 0..Len(s) :
                 /\ \A i \in (Len(s) - k + 1)..Len(s) : Char(s, i) \in cs
                 /\ (k = Len(s) \/ Char(s, Len(s) - k) \notin cs)
    IN  SubSeq(s, 1, Len(s) - k)

lstrip(s) == lstrip_chars(s, WHITESPACE)

strip(s) == rstrip_chars(lstrip_chars(s, WHITESPACE), WHITESPACE)

\* s.split(sep), a non-empty separator
RECURSIVE split(_, _)
split(s, sep) ==
    LET i == Find(s, sep)
    IN  IF i = 0 THEN <<s>>
        ELSE <<SubSeq(s, 1, i - 1)>> \o split(SubSeq(s, i + Len(sep), Len(s)), sep)

\* sep.join(parts)
RECURSIVE join(_, _)
join(sep, parts) ==
    IF Len(parts) = 0 THEN ""
    ELSE IF Len(parts) = 1 THEN parts[1]
    ELSE parts[1] \o sep \o join(sep, Tail(parts))

\* s.splitlines(): the line break of the texts modelled is "\n"; a final line
\* break opens no empty last line
splitlines(s) ==
    IF s = "" THEN <<>>
    ELSE LET parts == split(s, "\n")
         IN  IF parts[Len(parts)] = "" THEN SubSeq(parts, 1, Len(parts) - 1) ELSE parts

\* len(s.split()): the number of maximal runs of non-whitespace characters
WordCount(s) ==
    Cardinality({i \in 1..Len(s) :
        /\ Char(s, i) \notin WHITESPACE
        /\ (i = 1 \/ Char(s, i - 1) \in WHITESPACE)})

\* s.isdigit()
isdigit(s) == Len(s) > 0 /\ \A i \in 1..Len(s) : Char(s, i) \in DIGITS

\* str(n) of a natural number
RECURSIVE str(_)
str(n) ==
    LET d == <<"0", "1", "2", "3", "4", "5", "6", "7", "8", "9">>
    IN  IF n < 10 THEN d[n + 1] ELSE str(n \div 10) \o d[(n % 10) + 1]

\* "\n".join(f"{i+1}. {q}" for i, q in enumerate(questions))
numbered(questions) ==
    join("\n", [i \in 1..Len(questions) |-> str(i) \o ". " \o questions[i]])

-----------------------------------------------------------------------------
(* chatbot_logic.py: the question bank *)

BANK_KEYS == <<"python", "django", "react", "sql", "aws">>

RULE_BASED_QUESTION_BANK(tech) ==
    CASE tech = "python" -> <<
           "Explain the difference between a list and a tuple in Python.",
           "How does Python's GIL affect multi-threaded programs?",
           "Write a function to reverse a string and explain its complexity.">>
      [] tech = "django" -> <<
           "What is Django's MTV architecture? How is it different from MVC?",
           "How do you manage database migrations in Django?",
           "Explain middlewares in Django and a use-case for creating a custom middleware.">>
      [] tech = "react" -> <<
           "What are React hooks and why were they introduced?",
           "Explain the difference between props and state in React.",
           "How does the virtual DOM work?">>
      [] tech = "sql" -> <<
           "Write a SQL query to find duplicate rows in a table.",
           "Explain the difference between INNER JOIN and LEFT JOIN.",
           "What is indexing and how does it improve query performance?">>
      [] tech = "aws" -> <<
           "What is IAM and why is it important?",
           "Describe how S3 versioning works and a use-case.",
           "Compare EC2 and Lambda for running compute workloads.">>
      [] OTHER -> <<>>

\* [t.strip().lower() for t in tech_list if t and isinstance(t, str)]
RECURSIVE simple_normalize_tech(_)
simple_normalize_tech(tech_list) ==
    IF tech_list = <<>> THEN <<>>
    ELSE (IF Head(tech_list) # "" THEN <<lower(strip(Head(tech_list)))>> ELSE <<>>)
         \o simple_normalize_tech(Tail(tech_list))

-----------------------------------------------------------------------------
(* prompts.py *)

question_prompt_template(techs, num_questions_per_tech) ==
    "You are a hiring-assistant that generates short technical screening questions.\n"
    \o "Candidate tech-stack: " \o join(", ", techs) \o "\n"
    \o "Task: For each technology listed, produce " \o str(num_questions_per_tech)
    \o " concise, clear, and varied screening questions "
    \o "(conceptual, short coding/design, and troubleshooting/ops where applicable). "
    \o "Number each question and label which technology it is for. "
    \o "Do not ask for personal data. Keep each question under 40 words.\n\n"
    \o "Output format example:\n"
    \o "1. [Python] Explain ...\n"
    \o "2. [Django] How would you ...\n\n"
    \o "Begin generating now."

-----------------------------------------------------------------------------
(* chatbot_logic.py: LLMWrapper *)

\* An environment variable: unset (os.getenv gives None) or set to a string.
Unset == [set |-> FALSE, val |-> ""]

SetTo(v) == [set |-> TRUE, val |-> v]

\* os.getenv(name, default)
getenv(e, name, default) == IF e[name].set THEN e[name].val ELSE default

\* the truth value of os.getenv(name): None and "" are false
truthy(v) == v.set /\ v.val # ""

NotConstructed == [provider |-> "", openai_available |-> FALSE,
                   azure_endpoint |-> Unset, azure_key |-> Unset, built |-> FALSE]

\* LLMWrapper.__init__: the provider detection
DetectProvider(e) ==
    LET forced == lower(getenv(e, "FORCE_PROVIDER", ""))
        first  == IF forced # "" THEN forced ELSE "auto"
    IN  IF first = "auto"
        THEN IF truthy(e["OPENAI_API_KEY"]) THEN "openai"
             ELSE IF truthy(e["AZURE_OPENAI_KEY"]) /\ truthy(e["AZURE_OPENAI_ENDPOINT"])
                  THEN "azure_openai"
                  ELSE "rule_based"
        ELSE first

\* LLMWrapper.__init__
LLMWrapper(e, available) ==
    [provider         |-> DetectProvider(e),
     openai_available |-> available,
     azure_endpoint   |-> e["AZURE_OPENAI_ENDPOINT"],
     azure_key        |-> e["AZURE_OPENAI_KEY"],
     built            |-> TRUE]

GUIDANCE ==
    "I couldn't use an LLM backend. Here's a helpful fallback: "
    \o "Please list your tech stack (e.g., Python, Django, React). "
    \o "I can generate technical questions once you provide technologies."

\* for tech in RULE_BASED_QUESTION_BANK.keys(): if tech in lower: matched.append(tech)
RECURSIVE MatchedFrom(_, _)
MatchedFrom(keys, low) ==
    IF keys = <<>> THEN <<>>
    ELSE (IF Contains(low, Head(keys)) THEN <<Head(keys)>> ELSE <<>>)
         \o MatchedFrom(Tail(keys), low)

\* for tech in matched: questions.extend(RULE_BASED_QUESTION_BANK.get(tech, [])[:3])
RECURSIVE QuestionsFor(_)
QuestionsFor(matched) ==
    IF matched = <<>> THEN <<>>
    ELSE LET qs == RULE_BASED_QUESTION_BANK(Head(matched))
         IN  SubSeq(qs, 1, IF Len(qs) < 3 THEN Len(qs) ELSE 3)
             \o QuestionsFor(Tail(matched))

\* LLMWrapper._rule_based_from_prompt
_rule_based_from_prompt(prompt) ==
    LET matched == MatchedFrom(BANK_KEYS, lower(prompt))
    IN  IF matched = <<>> THEN GUIDANCE ELSE numbered(QuestionsFor(matched))

\* The outcomes of the external completion request: a completion text, or a
\* failure (network, auth, quota, a non-success status, a malformed body), which
\* the code catches as an exception.
Failure == [ok |-> FALSE, text |-> ""]

Completion(text) == [ok |-> TRUE, text |-> text]

\* whether generate takes a cloud branch, that is makes the external request
UsesCloud(w) ==
    \/ w.provider = "openai" /\ w.openai_available
    \/ w.provider = "azure_openai" /\ truthy(w.azure_key) /\ truthy(w.azure_endpoint)

\* LLMWrapper.generate: the text returned, given the outcome of the external
\* request (read only on the cloud branches)
generate(w, prompt, outcome) ==
    IF w.provider = "openai" /\ w.openai_available
    THEN IF outcome.ok THEN strip(outcome.text) ELSE _rule_based_from_prompt(prompt)
    ELSE IF w.provider = "azure_openai" /\ truthy(w.azure_key) /\ truthy(w.azure_endpoint)
    THEN IF outcome.ok THEN strip(outcome.text) ELSE _rule_based_from_prompt(prompt)
    ELSE _rule_based_from_prompt(prompt)

-----------------------------------------------------------------------------
(* chatbot_logic.py: Chatbot *)

\* for sep in (". ", ") ", " - "): the body of the loop
StripNumbering(cleaned, sep) ==
    IF Contains(cleaned, sep) /\ isdigit(split(cleaned, sep)[1])
    THEN strip(join(sep, Tail(split(cleaned, sep))))
    ELSE cleaned

\* the body of _parse_questions' loop over the lines: the cleaned line
CleanLine(line) ==
    LET unbulleted ==
            IF startswith(lstrip(line), "-") \/ startswith(lstrip(line), "*")
            THEN strip(lstrip_chars(line, {"-", "*", " "}))
            ELSE line
    IN  StripNumbering(StripNumbering(StripNumbering(unbulleted, ". "), ") "), " - ")

\* lines = [l.strip() for l in text.splitlines() if l.strip()]
RECURSIVE NonBlankLines(_)
NonBlankLines(ls) ==
    IF ls = <<>> THEN <<>>
    ELSE (IF strip(Head(ls)) # "" THEN <<strip(Head(ls))>> ELSE <<>>)
         \o NonBlankLines(Tail(ls))

\* (mutant: a line of exactly 10 characters is kept)
KeepLine_from10(cleaned) == Len(cleaned) >= 10

\* if len(cleaned) > 10: questions.append(cleaned)
KeepLine(cleaned) == Len(cleaned) > 10

RECURSIVE KeptQuestions(_)
KeptQuestions(lines) ==
    IF lines = <<>> THEN <<>>
    ELSE (IF KeepLine(CleanLine(Head(lines))) THEN <<CleanLine(Head(lines))>> ELSE <<>>)
         \o KeptQuestions(Tail(lines))

\* questions[:15]
Limit(questions) ==
    SubSeq(questions, 1, IF Len(questions) < 15 THEN Len(questions) ELSE 15)

\* Chatbot._parse_questions
_parse_questions(text) == Limit(KeptQuestions(NonBlankLines(splitlines(text))))

\* Chatbot.generate_questions_for_stack, up to the assignment of the stored set:
\* the prompt built, the text the provider returned, its parse and the reply
generate_questions_for_stack(w, techs, outcome) ==
    LET techs_norm == simple_normalize_tech(techs)
        prompt     == question_prompt_template(techs_norm, 3)
        response   == generate(w, prompt, outcome)
        parsed_questions == _parse_questions(response)
    IN  [reply |-> IF parsed_questions # <<>>
                   THEN "Here are the generated technical questions:\n"
                        \o numbered(parsed_questions)
                   ELSE response,
         parsed_questions |-> parsed_questions,
         prompt |-> prompt, response |-> response]

\* (mutant: the stored set is replaced only by a non-empty parse result)
StoreQuestions_nonempty(stored, parsed_questions) ==
    IF parsed_questions # <<>> THEN parsed_questions ELSE stored

\* self.last_generated_questions = parsed_questions
StoreQuestions(stored, parsed_questions) == parsed_questions

TRIGGERS == <<"generate", "questions", "ask me", "screening">>

\* any(token in mlow for token in [...])
HasTrigger(message) ==
    \E k \in 1..Len(TRIGGERS) : Contains(lower(strip(message)), TRIGGERS[k])

ASK_STACK ==
    "Please provide your tech stack (comma-separated) so I can generate questions."

ELABORATE ==
    "Could you please elaborate? If you'd like, provide your tech stack "
    \o "or ask me to 'generate questions'."

\* (the source's dash after "understand" is written "-" here)
NOT_UNDERSTOOD ==
    "I didn't quite understand - you can either update the candidate form, "
    \o "provide your tech stack (e.g., 'Python, React'), or ask me to 'generate questions'."

\* d.get(k, default)
dict_get(d, k, default) == IF k \in DOMAIN d THEN d[k] ELSE default

\* [t.strip() for t in text.split(",") if t.strip()]
RECURSIVE StrippedNonEmpty(_)
StrippedNonEmpty(parts) ==
    IF parts = <<>> THEN <<>>
    ELSE (IF strip(Head(parts)) # "" THEN <<strip(Head(parts))>> ELSE <<>>)
         \o StrippedNonEmpty(Tail(parts))

CommaList(text) == StrippedNonEmpty(split(text, ","))

\* the test of handle_message's second branch: an inline tech-stack declaration
IsInlineStack(message) ==
    /\ Contains(message, ",")
    /\ Len(split(message, ",")) <= 10
    /\ WordCount(message) < 50

-----------------------------------------------------------------------------
(* The bounded inputs of the specifications *)

NoEnv ==
    [FORCE_PROVIDER |-> Unset, OPENAI_API_KEY |-> Unset, AZURE_OPENAI_KEY |-> Unset,
     AZURE_OPENAI_ENDPOINT |-> Unset, AZURE_BLOB_CONN_STR |-> Unset,
     AZURE_BLOB_CONTAINER |-> Unset]

OpenAIEnv == [NoEnv EXCEPT !.OPENAI_API_KEY = SetTo("sk-1")]

AzureEnv == [NoEnv EXCEPT !.AZURE_OPENAI_KEY = SetTo("key"),
                          !.AZURE_OPENAI_ENDPOINT = SetTo("https://x.example/")]

\* the wrappers of the pipeline and session specifications: rule_based, openai
\* (the package installed) and azure_openai
Wrappers == {LLMWrapper(e, TRUE) : e \in {NoEnv, OpenAIEnv, AzureEnv}}

\* the completion texts the external service returns: blank, one that parses
\* to no question, one that parses to two
Completions ==
    {" \n ", "N/A", "1. [Python] Explain decorators.\n2. [React] Explain hooks in depth."}

Outcomes == {Failure} \cup {Completion(t) : t \in Completions}

\* what the outcome of the external request can be: with no request made there
\* is none, and generate does not read it
OutcomesFor(w) == IF UsesCloud(w) THEN Outcomes ELSE {Failure}

MaxTechs == 2

TechTokens == {" React ", "python", "java"}

TechLists == UNION {[1..n -> TechTokens] : n \in 0..MaxTechs}

\* generate_dummy_data.py: tech_pools
tech_pools ==
    <<<<"Python", "Django", "PostgreSQL">>,
      <<"React", "TypeScript", "Node.js">>,
      <<"Java", "Spring Boot", "MySQL">>,
      <<"Python", "Pandas", "scikit-learn">>,
      <<"AWS", "Terraform", "Docker">>>>

\* what the user types in the chat box: nothing, an exit keyword, small talk,
\* an inline tech stack, trigger words without and with commas
SessionMessages ==
    {"", "Done", "hi", "hello there", "Python, React", "generate questions",
     "Screening, please"}

\* what the user types in the candidate form
Forms ==
    {[full_name |-> " Ada Lovelace ", email |-> "a@b.com", phone |-> "555-1234",
      years_exp |-> 10, desired_positions |-> "Engineer, SRE", location |-> "London",
      tech_stack |-> "SQL, Go"],
     [full_name |-> "", email |-> "", phone |-> "", years_exp |-> 10,
      desired_positions |-> "", location |-> "", tech_stack |-> " , "]}

\* generate_questions_for_stack computes its result from its arguments alone:
\* it is evaluated once for each argument the specifications can pass it
StackLists ==
    TechLists
    \cup {CommaList(m) : m \in SessionMessages}
    \cup {CommaList(f.tech_stack) : f \in Forms}
    \cup {tech_pools[k] : k \in 1..Len(tech_pools)}

GenerationRuns ==
    {[args |-> x, result |-> generate_questions_for_stack(x[1], x[2], x[3])] :
        x \in {y \in Wrappers \X StackLists \X Outcomes : y[3] \in OutcomesFor(y[1])}}

RunGeneration(w, techs, outcome) ==
    (CHOOSE run \in GenerationRuns : run.args = <<w, techs, outcome>>).result

-----------------------------------------------------------------------------
(* chatbot_logic.py: Chatbot.handle_message *)

\* The result of Chatbot.handle_message: the reply, the stored question set after
\* the call, whether LLMWrapper.generate was invoked, and its prompt and text.
NoGeneration(reply, stored) ==
    [reply |-> reply, last_generated_questions |-> stored, called |-> FALSE,
     prompt |-> "", response |-> ""]

\* return self.generate_questions_for_stack(techs)
Generation(r, stored) ==
    [reply |-> r.reply,
     last_generated_questions |-> StoreQuestions(stored, r.parsed_questions),
     called |-> TRUE, prompt |-> r.prompt, response |-> r.response]

\* (mutant: the inline tech-stack test comes first)
handle_message_inline_first(w, message, cand, outcome, stored) ==
    IF IsInlineStack(message)
    THEN Generation(RunGeneration(w, CommaList(message), outcome), stored)
    ELSE IF HasTrigger(message)
    THEN LET techs == dict_get(cand, "tech_stack", <<>>)
         IN  IF techs = <<>>
             THEN NoGeneration(ASK_STACK, stored)
             ELSE Generation(RunGeneration(w, techs, outcome), stored)
    ELSE IF Len(strip(message)) < 3
    THEN NoGeneration(ELABORATE, stored)
    ELSE NoGeneration(NOT_UNDERSTOOD, stored)

\* Chatbot.handle_message
handle_message(w, message, cand, outcome, stored) ==
    IF HasTrigger(message)
    THEN LET techs == dict_get(cand, "tech_stack", <<>>)
         IN  IF techs = <<>>
             THEN NoGeneration(ASK_STACK, stored)
             ELSE Generation(RunGeneration(w, techs, outcome), stored)
    ELSE IF IsInlineStack(message)
    THEN Generation(RunGeneration(w, CommaList(message), outcome), stored)
    ELSE IF Len(strip(message)) < 3
    THEN NoGeneration(ELABORATE, stored)
    ELSE NoGeneration(NOT_UNDERSTOOD, stored)

\* (the source's dashes are written "-" here)
greeting ==
    "Hi - I'm TalentScout, your hiring assistant. "
    \o "I will collect a few details and generate 3-5 technical questions per technology you list. "
    \o "Type 'done' or 'exit' to finish the conversation."

farewell ==
    "Thanks! Your session is complete. We'll anonymize and store non-sensitive details. "
    \o "Good luck!"

-----------------------------------------------------------------------------
(* utils_storage.py and app.py *)

\* d[k] = v
dict_set(d, k, v) == [f \in DOMAIN d \cup {k} |-> IF f = k THEN v ELSE d[f]]

EmptyDict == [k \in {} |-> ""]

pad2(n) == IF n < 10 THEN "0" \o str(n) ELSE str(n)

\* The clock: s is the second since midnight of a day taken to be 2024-01-01
\* (less than a minute of it is modelled), u the microsecond within it. Code
\* takes time to run, so that no two handlers read the same microsecond.
Midnight == [s |-> 0, u |-> 0]

\* datetime.strftime("%Y%m%dT%H%M%SZ"): whole seconds
strftime(t) == "20240101T0000" \o pad2(t.s) \o "Z"

\* datetime.isoformat(): the microseconds are printed unless they are zero
isoformat(t) ==
    "2024-01-01T00:00:" \o pad2(t.s)
    \o (IF t.u = 0 THEN "" ELSE IF t.u < 10 THEN ".00000" \o str(t.u) ELSE ".0000" \o str(t.u))

\* save_local_candidate: the directory after open(fname, "w") and json.dump
save_local_candidate(dir, record, t) ==
    dict_set(dir, "candidate_" \o strftime(t) \o ".json", record)

\* try_upload_to_azure: the container after the call; uploaded is whether
\* upload_blob went through (a failure is caught and reported as False)
try_upload_to_azure(container, record, t, e, sdk, uploaded) ==
    IF ~truthy(e["AZURE_BLOB_CONN_STR"]) \/ ~truthy(e["AZURE_BLOB_CONTAINER"])
    THEN container
    ELSE IF ~sdk THEN container
    ELSE IF uploaded
    THEN dict_set(container, "candidate_" \o isoformat(t) \o ".json", record)
    ELSE container

EXIT_KEYWORDS == {"exit", "quit", "bye", "done"}

\* collect_candidate_info: the dict built from the submitted form
FormCandidate(f, t) ==
    [full_name         |-> strip(f.full_name),
     email             |-> strip(f.email),
     phone             |-> strip(f.phone),
     years_experience  |-> f.years_exp,
     desired_positions |-> CommaList(f.desired_positions),
     location          |-> strip(f.location),
     tech_stack        |-> CommaList(f.tech_stack),
     created_at        |-> isoformat(t) \o "Z"]

\* generate_dummy_candidate, for one draw of the name and of the tech pool (the
\* phone, the years and the location are one fixed draw)
generate_dummy_candidate(name, pool, t) ==
    [full_name         |-> name,
     email             |-> lower(join(".", split(name, " "))) \o "@example.com",
     phone             |-> "+919000000001",
     years_experience  |-> 35,
     desired_positions |-> <<"Software Engineer">>,
     location          |-> "Pune, India",
     tech_stack        |-> pool,
     created_at        |-> isoformat(t) \o "+00:00"]

\* (mutant: the phone is left as it is)
AnonymizedCopy_phone(cand, questions) ==
    [record  |-> dict_set([k \in DOMAIN cand |->
                              IF k = "email" /\ cand[k] # ""
                              THEN "redacted@example.com" ELSE cand[k]],
                          "questions", questions),
     session |-> cand]

\* input_area, lines 90-96: candidate_copy = dict(candidate), the two fields
\* masked when present and non-empty, the questions added. The copy is the
\* record; the session's dict is not written.
AnonymizedCopy(cand, questions) ==
    [record  |-> dict_set([k \in DOMAIN cand |->
                              IF k = "email" /\ cand[k] # ""
                              THEN "redacted@example.com"
                              ELSE IF k = "phone" /\ cand[k] # ""
                              THEN "REDACTED" ELSE cand[k]],
                          "questions", questions),
     session |-> cand]

-----------------------------------------------------------------------------
(* The state outside the part a specification exercises *)

NoCall == [op |-> "none"]

NotParsed == [done |-> FALSE, questions |-> <<>>]

\* sends: the Send clicks handled; profiles: the times the candidate was set;
\* genSend, genProfile: their values when the stored question set was produced
NoOrigin == [sends |-> 0, profiles |-> 0, genSend |-> 0, genProfile |-> 0]

NoSession ==
    /\ messages = <<>>
    /\ candidate = EmptyDict
    /\ azure_sdk_available = FALSE
    /\ files = EmptyDict
    /\ blobs = EmptyDict
    /\ now = Midnight
    /\ sink = <<>>
    /\ origin = NoOrigin

NoParse == parseIn = "" /\ parseOut = NotParsed

sessionVars ==
    <<messages, candidate, azure_sdk_available, files, blobs, now, sink, origin>>

parseVars == <<parseIn, parseOut>>

-----------------------------------------------------------------------------
(* Specification SpecParse: Chatbot._parse_questions applied to bounded texts *)

MaxLines == 3

\* the lines the texts are made of: numbered lines with bodies of 9, 10 and 11
\* characters, bodies that carry a second numbering, a bullet, a short line
ParseLines ==
    {"1. Explain X", "2. Explain Y", "3. Explain XY", "4. Explain XYZ",
     "5. 2) Explain XYZW", "6. 7 - Explain XYZW", "- What is a bullet?", "Short"}

RECURSIVE Repeat(_, _)
Repeat(line, n) == IF n = 0 THEN <<>> ELSE <<line>> \o Repeat(line, n - 1)

\* texts of up to MaxLines lines, and texts of 14 to 17 numbered lines
ParseTexts ==
    {join("\n", ls) : ls \in UNION {[1..n -> ParseLines] : n \in 0..MaxLines}}
    \cup {join("\n", Repeat("10. What is a closure?", n)) : n \in 14..17}

InitParse ==
    /\ parseIn \in ParseTexts
    /\ parseOut = NotParsed
    /\ env = NoEnv
    /\ openai_available = FALSE
    /\ llm = NotConstructed
    /\ last_generated_questions = <<>>
    /\ call = NoCall
    /\ NoSession

Parse ==
    /\ ~parseOut.done
    /\ parseOut' = [done |-> TRUE, questions |-> _parse_questions(parseIn)]
    /\ UNCHANGED <<parseIn, env, openai_available, llm, last_generated_questions, call>>
    /\ UNCHANGED sessionVars

NextParse == Parse

SpecParse == InitParse /\ [][NextParse]_vars

-----------------------------------------------------------------------------
(* Specification SpecProvider: LLMWrapper construction and generate *)

ForceValues == {Unset, SetTo(""), SetTo("OpenAI"), SetTo("azure_openai"),
                SetTo("rule_based"), SetTo("auto"), SetTo("foo")}

ProviderEnvs ==
    {[FORCE_PROVIDER |-> f, OPENAI_API_KEY |-> ok, AZURE_OPENAI_KEY |-> ak,
      AZURE_OPENAI_ENDPOINT |-> ae, AZURE_BLOB_CONN_STR |-> Unset,
      AZURE_BLOB_CONTAINER |-> Unset] :
        f \in ForceValues, ok \in {Unset, SetTo(""), SetTo("sk-1")},
        ak \in {Unset, SetTo("key")}, ae \in {Unset, SetTo("https://x.example/")}}

RawPrompts ==
    {"", "stack: java", "React, Python",
     question_prompt_template(<<"java">>, 3)}

InitProvider ==
    /\ env \in ProviderEnvs
    /\ openai_available \in BOOLEAN
    /\ llm = NotConstructed
    /\ last_generated_questions = <<>>
    /\ call = NoCall
    /\ NoSession
    /\ NoParse

\* LLMWrapper()
Construct ==
    /\ ~llm.built
    /\ llm' = LLMWrapper(env, openai_available)
    /\ UNCHANGED <<env, openai_available, last_generated_questions, call>>
    /\ UNCHANGED sessionVars
    /\ UNCHANGED parseVars

\* llm.generate(prompt)
Generate ==
    /\ llm.built
    /\ \E prompt \in RawPrompts, outcome \in OutcomesFor(llm) :
           call' = [op |-> "generate", prompt |-> prompt, cloud |-> UsesCloud(llm),
                    outcome |-> outcome, before |-> llm,
                    result |-> generate(llm, prompt, outcome)]
    /\ UNCHANGED <<env, openai_available, llm, last_generated_questions>>
    /\ UNCHANGED sessionVars
    /\ UNCHANGED parseVars

NextProvider == Construct \/ Generate

SpecProvider == InitProvider /\ [][NextProvider]_vars

-----------------------------------------------------------------------------
(* Specification SpecPipeline: Chatbot.generate_questions_for_stack, that is *)
(* simple_normalize_tech -> question_prompt_template -> LLMWrapper.generate  *)
(* -> _parse_questions, for bounded tech lists and every provider outcome    *)

\* Chatbot(LLMWrapper())
InitPipeline ==
    /\ env \in {NoEnv, OpenAIEnv, AzureEnv}
    /\ openai_available = TRUE
    /\ llm = LLMWrapper(env, openai_available)
    /\ last_generated_questions = <<>>
    /\ call = NoCall
    /\ NoSession
    /\ NoParse

\* chatbot.generate_questions_for_stack(techs)
GenerateQuestionsForStack ==
    /\ \E techs \in TechLists, outcome \in OutcomesFor(llm) :
       \E r \in {RunGeneration(llm, techs, outcome)} :
          /\ last_generated_questions' =
                 StoreQuestions(last_generated_questions, r.parsed_questions)
          /\ call' = [op |-> "generate_questions_for_stack", techs |-> techs,
                      hadQuestions |-> last_generated_questions # <<>>,
                      prompt |-> r.prompt, response |-> r.response,
                      reply |-> r.reply]
    /\ UNCHANGED <<env, openai_available, llm>>
    /\ UNCHANGED sessionVars
    /\ UNCHANGED parseVars

NextPipeline == GenerateQuestionsForStack

SpecPipeline == InitPipeline /\ [][NextPipeline]_vars

-----------------------------------------------------------------------------
(* Specification Spec: the Streamlit session of app.py *)

MaxMessages == 4

MaxClock == 1

\* no provider credentials and the blob storage configured; or an OpenAI key
\* and no blob storage
SessionEnvs ==
    {[NoEnv EXCEPT !.AZURE_BLOB_CONN_STR = SetTo("conn"),
                   !.AZURE_BLOB_CONTAINER = SetTo("candidates")],
     OpenAIEnv}

\* app.py lines 27-35: the session state on the first run of the script
Init ==
    /\ env \in SessionEnvs
    /\ openai_available = TRUE
    /\ azure_sdk_available = TRUE
    /\ llm = LLMWrapper(env, openai_available)
    /\ last_generated_questions = <<>>
    /\ call = NoCall
    /\ messages = <<>>
    /\ candidate = EmptyDict
    /\ files = EmptyDict
    /\ blobs = EmptyDict
    /\ now = Midnight
    /\ sink = <<>>
    /\ origin = NoOrigin
    /\ NoParse

fixedVars == <<env, openai_available, azure_sdk_available, llm>>

\* the next second begins
Tick ==
    /\ now.s < MaxClock
    /\ now' = [s |-> now.s + 1, u |-> 0]
    /\ UNCHANGED <<last_generated_questions, call, messages, candidate, files, blobs,
                   sink, origin>>
    /\ UNCHANGED fixedVars
    /\ UNCHANGED parseVars

\* collect_candidate_info with the form submitted
SubmitForm ==
    /\ Len(messages) + 2 <= MaxMessages
    /\ \E f \in Forms :
       \E c \in {FormCandidate(f, now)} :
          /\ candidate' = c
          /\ messages' = messages \o
                 << <<"user", "Candidate registered: "
                        \o (IF c.full_name # "" THEN c.full_name ELSE "N/A")>>,
                    <<"assistant", greeting>> >>
    /\ origin' = [origin EXCEPT !.profiles = @ + 1]
    /\ now' = [now EXCEPT !.u = @ + 1]
    /\ UNCHANGED <<last_generated_questions, call, files, blobs, sink>>
    /\ UNCHANGED fixedVars
    /\ UNCHANGED parseVars

\* generate_dummy_and_fill
GenerateDummy ==
    /\ Len(messages) + 1 <= MaxMessages
    /\ \E k \in 1..Len(tech_pools) :
          candidate' = generate_dummy_candidate("Aditi Sharma", tech_pools[k], now)
    /\ messages' = Append(messages,
                     <<"assistant", "Filled candidate form with dummy data (for testing).">>)
    /\ origin' = [origin EXCEPT !.profiles = @ + 1]
    /\ now' = [now EXCEPT !.u = @ + 1]
    /\ UNCHANGED <<last_generated_questions, call, files, blobs, sink>>
    /\ UNCHANGED fixedVars
    /\ UNCHANGED parseVars

\* whether try_upload_to_azure reaches upload_blob, and so has an outcome
UploadOutcomes ==
    IF truthy(env["AZURE_BLOB_CONN_STR"]) /\ truthy(env["AZURE_BLOB_CONTAINER"])
       /\ azure_sdk_available
    THEN BOOLEAN ELSE {FALSE}

\* input_area, lines 83-99: the message is handled and, with a non-empty stored
\* question set, the anonymized record is saved and uploaded
SendMessage(user_input) ==
    \E outcome \in OutcomesFor(llm), uploaded \in UploadOutcomes :
    \E r \in {handle_message(llm, user_input, candidate, outcome,
                             last_generated_questions)} :
       /\ messages' = messages \o << <<"user", user_input>>, <<"assistant", r.reply>> >>
       /\ last_generated_questions' = r.last_generated_questions
       /\ call' = [op |-> "handle_message", message |-> user_input,
                   candidate |-> candidate, before |-> last_generated_questions,
                   reply |-> r.reply, called |-> r.called, response |-> r.response]
       /\ origin' = IF r.called
                    THEN [origin EXCEPT !.sends = @ + 1, !.genSend = origin.sends + 1,
                                        !.genProfile = origin.profiles]
                    ELSE [origin EXCEPT !.sends = @ + 1]
       /\ IF r.last_generated_questions # <<>>
          THEN \E a \in {AnonymizedCopy(candidate, r.last_generated_questions)} :
                  /\ candidate' = a.session
                  /\ files' = save_local_candidate(files, a.record, now)
                  /\ blobs' = try_upload_to_azure(blobs, a.record, now, env,
                                                  azure_sdk_available, uploaded)
                  /\ sink' = Append(sink,
                        [record |-> a.record, profile |-> candidate,
                         session |-> a.session,
                         fname |-> "candidate_" \o strftime(now) \o ".json",
                         origin |-> origin'])
                  /\ now' = [now EXCEPT !.u = @ + 1]
          ELSE UNCHANGED <<candidate, files, blobs, now, sink>>

\* input_area with Send clicked
Send ==
    /\ \E user_input \in SessionMessages :
          IF user_input = ""
          THEN \* st.warning(...); return
               UNCHANGED <<last_generated_questions, call, messages, candidate, files,
                           blobs, now, sink, origin>>
          ELSE /\ Len(messages) + 2 <= MaxMessages
               /\ IF lower(strip(user_input)) \in EXIT_KEYWORDS
                  THEN \* the farewell, and st.experimental_rerun() ends the run
                       /\ messages' = messages \o
                              << <<"user", user_input>>, <<"assistant", farewell>> >>
                       /\ UNCHANGED <<last_generated_questions, call, candidate, files,
                                      blobs, now, sink, origin>>
                  ELSE SendMessage(user_input)
    /\ UNCHANGED fixedVars
    /\ UNCHANGED parseVars

Next == Tick \/ SubmitForm \/ GenerateDummy \/ Send

Spec == Init /\ [][Next]_vars

-----------------------------------------------------------------------------
(* The claims *)

\* C1 (as claimed): every record the Send handler hands to the persistence sink
\* carries a question list produced while handling that same message, under the
\* candidate profile that is saved with it: never a list generated before the
\* profile was set, never one left over from an earlier message.
C1_SavedQuestionsAreFresh ==
    \A i \in 1..Len(sink) :
        /\ sink[i].origin.genSend = sink[i].origin.sends
        /\ sink[i].origin.genProfile = sink[i].origin.profiles

\* C2 (as claimed): LLMWrapper.generate returns a non-empty string, whatever the
\* provider, the prompt and the outcome of the external request.
C2_GenerateNonEmpty == call.op = "generate" => call.result # ""

IsBankKey(token) == \E k \in 1..Len(BANK_KEYS) : BANK_KEYS[k] = lower(strip(token))

\* C3 (as claimed): with the rule_based provider, a tech list none of whose
\* tokens is a Question Bank keyword gets exactly the fixed guidance string.
C3_GuidanceForUnknownStack ==
    (/\ call.op = "generate_questions_for_stack"
     /\ llm.provider = "rule_based"
     /\ \A i \in 1..Len(call.techs) : ~IsBankKey(call.techs[i]))
    => call.response = GUIDANCE

\* the first 3 questions of each token of the list, in the order of the list
RECURSIVE InInputOrder(_)
InInputOrder(techs) ==
    IF techs = <<>> THEN <<>>
    ELSE LET qs == RULE_BASED_QUESTION_BANK(lower(strip(Head(techs))))
         IN  SubSeq(qs, 1, 3) \o InInputOrder(Tail(techs))

\* C4 (as claimed): with the rule_based provider, a non-empty tech list of
\* Question Bank tokens gets the first 3 questions of each token, the groups in
\* the order of the list, and no question of any other technology.
C4_BankQuestionsInInputOrder ==
    (/\ call.op = "generate_questions_for_stack"
     /\ llm.provider = "rule_based"
     /\ call.techs # <<>>
     /\ \A i \in 1..Len(call.techs) : IsBankKey(call.techs[i]))
    => call.response = numbered(InInputOrder(call.techs))

\* the number of digits a line starts with that ". " follows; 0 when the line
\* does not have the form '<digits>. <body>'
NumberWidth(line, sep) ==
    LET ks == {k \in 1..Len(line) :
                  /\ isdigit(SubSeq(line, 1, k))
                  /\ SubSeq(line, k + 1, k + Len(sep)) = sep}
    IN  IF ks = {} THEN 0 ELSE CHOOSE k \in ks : TRUE

InputLines(text) == NonBlankLines(splitlines(text))

AllNumbered(text) ==
    \A i \in 1..Len(InputLines(text)) : NumberWidth(InputLines(text)[i], ". ") > 0

\* the body of a line of the form '<digits>. <body>'
BodyOf(line) == SubSeq(line, NumberWidth(line, ". ") + 3, Len(line))

Unnumbered(body, sep) ==
    IF NumberWidth(body, sep) = 0 THEN body
    ELSE strip(SubSeq(body, NumberWidth(body, sep) + Len(sep) + 1, Len(body)))

QuestionOf(line) == Unnumbered(Unnumbered(strip(BodyOf(line)), ") "), " - ")

LongerThan10(question) == Len(question) > 10

C6_StoredSetIsLatestParse ==
    call.op = "generate_questions_for_stack"
    => last_generated_questions = _parse_questions(call.response)

\* C6 witness: a call whose parse is empty has replaced a non-empty stored set
C6_Witness ==
    /\ call.op = "generate_questions_for_stack"
    /\ call.hadQuestions
    /\ _parse_questions(call.response) = <<>>
    /\ last_generated_questions = <<>>

Redacted(record) ==
    "email" \in DOMAIN record
    => record.email \in {"", "redacted@example.com"} /\ record.phone \in {"", "REDACTED"}

\* C7: a record saved for a profile with a non-empty email and phone carries
\* the two placeholders; no stored file or blob holds an original email or
\* phone; the session's profile is the same after the save as before.
C7_SavedRecordsAreRedacted ==
    /\ \A i \in 1..Len(sink) :
          ("email" \in DOMAIN sink[i].profile
             /\ sink[i].profile.email # "" /\ sink[i].profile.phone # "")
          => /\ sink[i].record.email = "redacted@example.com"
             /\ sink[i].record.phone = "REDACTED"
             /\ sink[i].session = sink[i].profile
    /\ \A f \in DOMAIN files : Redacted(files[f])
    /\ \A b \in DOMAIN blobs : Redacted(blobs[b])

\* C7 witness: a record was saved and uploaded for a profile with an email and
\* a phone
C7_Witness ==
    \E i \in 1..Len(sink) :
        /\ "email" \in DOMAIN sink[i].profile
        /\ sink[i].profile.email # ""
        /\ sink[i].profile.phone # ""
        /\ files[sink[i].fname] = sink[i].record
        /\ \E b \in DOMAIN blobs : blobs[b] = sink[i].record

\* C8 (as claimed): no save replaces the file of an earlier save: there are as
\* many files as saves, each still holding the record written to it.
C8_OneFilePerSave ==
    /\ Cardinality(DOMAIN files) = Len(sink)
    /\ \A i \in 1..Len(sink) : files[sink[i].fname] = sink[i].record

\* C9 (as claimed): the provider of a constructed LLMWrapper is one of the three
\* names; a set override naming one of them wins; with no override an OpenAI key
\* selects openai, else the Azure pair azure_openai, else rule_based; and
\* generate leaves the selection as it was.
C9_ProviderIsOneOfThree ==
    llm.built =>
        /\ llm.provider \in {"openai", "azure_openai", "rule_based"}
        /\ lower(getenv(env, "FORCE_PROVIDER", "")) \in {"openai", "azure_openai", "rule_based"}
           => llm.provider = lower(getenv(env, "FORCE_PROVIDER", ""))
        /\ getenv(env, "FORCE_PROVIDER", "") = ""
           => llm.provider =
                 IF truthy(env["OPENAI_API_KEY"]) THEN "openai"
                 ELSE IF truthy(env["AZURE_OPENAI_KEY"]) /\ truthy(env["AZURE_OPENAI_ENDPOINT"])
                      THEN "azure_openai" ELSE "rule_based"
        /\ call.op = "generate" => call.before = llm

\* a message with one of the trigger words, in any case
NamesTrigger(message) ==
    \E word \in {"generate", "questions", "ask me", "screening"} :
        Contains(lower(message), word)

\* C10: handle_message with a trigger word and a candidate without tech stack
\* returns the fixed prompt for the stack, does not call LLMWrapper.generate and
\* leaves the stored question set as it was, commas in the message or not.
C10_TriggerWithoutStackAsksForIt ==
    (/\ call.op = "handle_message"
     /\ NamesTrigger(call.message)
     /\ dict_get(call.candidate, "tech_stack", <<>>) = <<>>)
    => /\ call.reply = ASK_STACK
       /\ ~call.called
       /\ last_generated_questions = call.before

\* C10 witness: such a message, with a comma, handled for a candidate without
\* tech stack while a question set was stored
C10_Witness ==
    /\ call.op = "handle_message"
    /\ NamesTrigger(call.message)
    /\ Contains(call.message, ",")
    /\ dict_get(call.candidate, "tech_stack", <<>>) = <<>>
    /\ call.before # <<>>
    /\ call.reply = ASK_STACK

AtLeast10(cleaned) == Len(cleaned) >= 10

\* C11: _parse_questions discards exactly the lines whose text after the bullet
\* and numeric-prefix stripping is shorter than 10 characters and keeps, in
\* input order, every line whose stripped text has 10 or more characters (a
\* line of exactly 10 characters is kept).  Stated for texts of at most 15
\* non-blank lines, where the cut to 15 questions removes nothing.
C11_KeepsLinesOfTenOrMore ==
    (parseOut.done /\ Len(NonBlankLines(splitlines(parseIn))) <= 15)
    => LET lines == NonBlankLines(splitlines(parseIn))
       IN  parseOut.questions =
               SelectSeq([i \in 1..Len(lines) |-> CleanLine(lines[i])], AtLeast10)

====
